---- MODULE Spec2Model ----
(***************************************************************************)
(* Model of theano/gof/compilelock.py: lock_ctx, get_lock, release_lock.   *)
(*                                                                         *)
(* fcntl.lockf is the POSIX record lock (fcntl F_SETLKW).  Such a lock is  *)
(* owned by the PROCESS, not by the file object or the thread:             *)
(*   - LOCK_EX blocks only while ANOTHER process owns the lock on the      *)
(*     file; a process that already owns it gets it again at once;         *)
(*   - LOCK_UN drops the process's lock on the file;                       *)
(*   - closing ANY descriptor of the file drops the process's lock on it.  *)
(* Threads run one source line (one blocking call) per step.               *)
(*                                                                         *)
(* There are two concurrent callers, t1 and t2: two threads of one process *)
(* or the main threads of two processes, as the initial state chooses.     *)
(*                                                                         *)
(* File objects are reference counted (CPython): an open file that nothing *)
(* refers to any more is closed at that moment.  The local f of a get_lock *)
(* call that raised lives, through the traceback, until the caller is done *)
(* with the exception.                                                     *)
(***************************************************************************)
EXTENDS Naturals, Sequences, FiniteSets

VARIABLES
    existing,   \* the directories that exist on disk
    sentinel,   \* sentinel[d]: <d>/.theano_lock exists
    lockOwner,  \* lockOwner[d]: the process owning the lock on d's sentinel
    get_lock_f, \* get_lock_f[p]: the function attribute get_lock.f of process p
    procOf,     \* procOf[t]: the process thread t runs in
    pc,         \* pc[t]: the line thread t is at
    stack,      \* stack[t]: the active lock_ctx frames of t, innermost last
    loc,        \* loc[t]: the local variable f of get_lock / release_lock
    res         \* res[t]: outcome of the call t has just finished (pc = "done")

vars == <<existing, sentinel, lockOwner, get_lock_f, procOf, pc, stack, loc, res>>

----------------------------------------------------------------------------
(* Bounds of the model *)

\* greatest number of lock_ctx scopes open at once, over all threads
MaxScopes == 2

Procs == {"p1", "p2"}

\* the two concurrent callers: two threads of one process, or the main
\* threads of two processes
Threads == {"t1", "t2"}

Proc(t) == procOf[t]

Dirs == {"d1", "d2"}

\* a path whose directory does not exist
MissingDir == "nodir"

AllDirs == Dirs \cup {MissingDir}

NoProc == "none"

\* get_lock.f is not set
Unset == [dir |-> "unset"]

\* a file object on the sentinel of d; tag, for the local f of a call:
\*   "new"    opened by this get_lock call, not yet get_lock.f
\*   "reg"    the object get_lock.f refers to now
\*   "open"   an open object get_lock.f referred to when it was read
\*   "closed" an object that has been closed since it was read
File(d, tag) == [dir |-> d, tag |-> tag]

NoFile == [dir |-> "nofile", tag |-> "none"]

NoRes == [op |-> "none", dir |-> "none", keep_lock |-> FALSE, exc |-> "none"]

Result(op, d, k, e) == [op |-> op, dir |-> d, keep_lock |-> k, exc |-> e]

----------------------------------------------------------------------------
(* The operating system's record locks *)

\* fcntl.lockf(f, LOCK_EX) returns for process p: no other process owns the lock
\* a lock that its own process has to wait for as well
CanLockWhenFree(owner, p) == owner = NoProc

CanLock(owner, p) == owner \in {NoProc, p}

\* fcntl.lockf(f, LOCK_UN) by process p on the sentinel of d
Unlock(lo, p, d) == IF lo[d] = p THEN [lo EXCEPT ![d] = NoProc] ELSE lo

\* a close that leaves the record locks of the process alone
CloseFileKeepsLock(lo, p, d) == lo

\* a close that drops the record locks of the process on every file
CloseFileDropsAll(lo, p, d) ==
    [x \in DOMAIN lo |-> IF lo[x] = p THEN NoProc ELSE lo[x]]

\* f.close() by process p of a file object on the sentinel of d: closing any
\* descriptor of a file drops every record lock of the process on that file
CloseFile(lo, p, d) == IF lo[d] = p THEN [lo EXCEPT ![d] = NoProc] ELSE lo

----------------------------------------------------------------------------
(* Helpers on the model's state *)

Top(s) == s[Len(s)]

Pop(s) == SubSeq(s, 1, Len(s) - 1)

RECURSIVE SumOver(_, _)
SumOver(f, S) == IF S = {} THEN 0
                 ELSE LET x == CHOOSE y \in S : TRUE
                      IN f[x] + SumOver(f, S \ {x})

OpenScopes == SumOver([t \in Threads |-> Len(stack[t])], Threads)

\* frame i of thread t is between its yield and the resumption of its generator
FrameInBlock(t, i) ==
    i < Len(stack[t]) \/ pc[t] \notin {"ctx_lockf", "ctx_close"}

\* thread t is inside the block of a lock_ctx scope on d
InBlock(t, d) ==
    \E i \in 1..Len(stack[t]) : stack[t][i].dir = d /\ FrameInBlock(t, i)

\* the lock_ctx frames of thread t on d
FramesOn(t, d) == Cardinality({i \in 1..Len(stack[t]) : stack[t][i].dir = d})

\* the open file objects of process p on the sentinel of d: one for each
\* lock_ctx frame (from line 19 to the end of its with statement), one for
\* each local f that is not the object of get_lock.f, and that object
OpenFiles(p, d) ==
    SumOver([t \in Threads |->
                IF Proc(t) # p THEN 0
                ELSE FramesOn(t, d)
                     + (IF loc[t].dir = d /\ loc[t].tag \in {"new", "open"} THEN 1 ELSE 0)],
            Threads)
    + (IF get_lock_f[p] = [dir |-> d] THEN 1 ELSE 0)

\* the threads of process p, other than t, whose local f is get_lock.f (a
\* process has at most two threads here, so at most one such thread)
Sharers(p, t) == {u \in Threads \ {t} : Proc(u) = p /\ loc[u].tag = "reg"}

\* the locals of the other threads once get_lock.f of p stops referring to its
\* object: they keep the object alive ("open")
Detach(l, p, t) ==
    [u \in Threads |-> IF u \in Sharers(p, t) THEN [l[u] EXCEPT !.tag = "open"]
                       ELSE l[u]]

\* the locals of the other threads once t has closed the object of get_lock.f
MarkClosed(l, p, t) ==
    [u \in Threads |-> IF u \in Sharers(p, t) THEN [l[u] EXCEPT !.tag = "closed"]
                       ELSE l[u]]

\* the locks once get_lock.f of p stops referring to its object: the object
\* is closed unless a local of another thread still refers to it
DropRegistered(lo, p, t) ==
    IF get_lock_f[p] # Unset /\ Sharers(p, t) = {}
    THEN CloseFile(lo, p, get_lock_f[p].dir)
    ELSE lo

----------------------------------------------------------------------------
Init ==
    /\ existing = Dirs
    /\ sentinel = [d \in AllDirs |-> FALSE]
    /\ lockOwner = [d \in Dirs |-> NoProc]
    /\ get_lock_f = [p \in Procs |-> Unset]
    /\ procOf \in {f \in [Threads -> Procs] : f["t1"] = "p1"}
    /\ pc = [t \in Threads |-> "idle"]
    /\ stack = [t \in Threads |-> << >>]
    /\ loc = [t \in Threads |-> NoFile]
    /\ res = [t \in Threads |-> NoRes]

----------------------------------------------------------------------------
(* lock_ctx *)

\* a lock_ctx that makes the directory when it is missing
lock_ctx_open_makedirs(t, d) ==
    /\ pc[t] = "idle"
    /\ OpenScopes < MaxScopes
    /\ existing' = existing \cup {d}
    /\ sentinel' = [sentinel EXCEPT ![d] = TRUE]
    /\ stack' = [stack EXCEPT ![t] = Append(@, [dir |-> d, keep_lock |-> FALSE])]
    /\ pc' = [pc EXCEPT ![t] = "ctx_lockf"]
    /\ UNCHANGED <<procOf, lockOwner, get_lock_f, loc, res>>

\* line 19, entering: open(os.path.join(lock_dir, '.theano_lock'), 'w')
lock_ctx_open(t, d) ==
    /\ pc[t] = "idle"
    /\ OpenScopes < MaxScopes
    /\ IF d \in existing
       THEN /\ sentinel' = [sentinel EXCEPT ![d] = TRUE]
            /\ stack' = [stack EXCEPT ![t] = Append(@, [dir |-> d, keep_lock |-> FALSE])]
            /\ pc' = [pc EXCEPT ![t] = "ctx_lockf"]
            /\ res' = res
       ELSE /\ pc' = [pc EXCEPT ![t] = "done"]
            /\ res' = [res EXCEPT ![t] = Result("lock_ctx", d, FALSE, "IOError")]
            /\ UNCHANGED <<sentinel, stack>>
    /\ UNCHANGED <<existing, procOf, lockOwner, get_lock_f, loc>>

\* line 20: fcntl.lockf(f, fcntl.LOCK_EX), then line 21: yield
lock_ctx_lockf(t) ==
    /\ pc[t] = "ctx_lockf"
    /\ LET d == Top(stack[t]).dir IN
         /\ CanLock(lockOwner[d], Proc(t))
         /\ lockOwner' = [lockOwner EXCEPT ![d] = Proc(t)]
    /\ pc' = [pc EXCEPT ![t] = "idle"]
    /\ UNCHANGED <<existing, procOf, sentinel, get_lock_f, stack, loc, res>>

\* the block ends normally: lines 22-23, if not keep_lock: lockf(f, LOCK_UN).
\* keep_lock is the argument k of the call; it is read here and nowhere else,
\* so the frame records it from here on
lock_ctx_exit(t, k) ==
    /\ pc[t] = "idle"
    /\ Len(stack[t]) > 0
    /\ lockOwner' = IF k THEN lockOwner
                    ELSE Unlock(lockOwner, Proc(t), Top(stack[t]).dir)
    /\ stack' = [stack EXCEPT ![t][Len(stack[t])].keep_lock = k]
    /\ pc' = [pc EXCEPT ![t] = "ctx_close"]
    /\ UNCHANGED <<existing, procOf, sentinel, get_lock_f, loc, res>>

\* the block raises: the exception is thrown into the generator at line 21,
\* lines 22-23 are skipped and the with statement of line 19 takes over
lock_ctx_raise(t) ==
    /\ pc[t] = "idle"
    /\ Len(stack[t]) > 0
    /\ pc' = [pc EXCEPT ![t] = "ctx_close"]
    /\ res' = [res EXCEPT ![t] = Result("block", "none", FALSE, "BodyError")]
    /\ UNCHANGED <<existing, procOf, sentinel, lockOwner, get_lock_f, stack, loc>>

\* a with-exit that also forgets the registered handle
lock_ctx_close_unregisters(t) ==
    /\ pc[t] = "ctx_close"
    /\ LET fr == Top(stack[t]) IN
         /\ lockOwner' = CloseFile(lockOwner, Proc(t), fr.dir)
         /\ res' = [res EXCEPT ![t] = Result("lock_ctx", fr.dir, fr.keep_lock, res[t].exc)]
    /\ get_lock_f' = [get_lock_f EXCEPT ![Proc(t)] = Unset]
    /\ stack' = [stack EXCEPT ![t] = Pop(@)]
    /\ pc' = [pc EXCEPT ![t] = "done"]
    /\ UNCHANGED <<existing, procOf, sentinel, loc>>

\* line 19, leaving: the with statement closes f, on every way out
lock_ctx_close(t) ==
    /\ pc[t] = "ctx_close"
    /\ LET fr == Top(stack[t]) IN
         /\ lockOwner' = CloseFile(lockOwner, Proc(t), fr.dir)
         /\ res' = [res EXCEPT ![t] = Result("lock_ctx", fr.dir, fr.keep_lock, res[t].exc)]
    /\ stack' = [stack EXCEPT ![t] = Pop(@)]
    /\ pc' = [pc EXCEPT ![t] = "done"]
    /\ UNCHANGED <<existing, procOf, sentinel, get_lock_f, loc>>

----------------------------------------------------------------------------
(* get_lock *)

\* line 29: f = open(os.path.join(lock_dir, '.theano_lock'), 'w')
get_lock_open(t, d) ==
    /\ pc[t] = "idle"
    /\ IF d \in existing
       THEN /\ sentinel' = [sentinel EXCEPT ![d] = TRUE]
            /\ loc' = [loc EXCEPT ![t] = File(d, "new")]
            /\ pc' = [pc EXCEPT ![t] = "gl_lockf"]
            /\ res' = res
       ELSE /\ pc' = [pc EXCEPT ![t] = "done"]
            /\ res' = [res EXCEPT ![t] = Result("get_lock", d, FALSE, "IOError")]
            /\ UNCHANGED <<sentinel, loc>>
    /\ UNCHANGED <<existing, procOf, lockOwner, get_lock_f, stack>>

\* line 30: fcntl.lockf(f, fcntl.LOCK_EX)
get_lock_lockf(t) ==
    /\ pc[t] = "gl_lockf"
    /\ CanLock(lockOwner[loc[t].dir], Proc(t))
    /\ lockOwner' = [lockOwner EXCEPT ![loc[t].dir] = Proc(t)]
    /\ pc' = [pc EXCEPT ![t] = "gl_assert"]
    /\ UNCHANGED <<existing, procOf, sentinel, get_lock_f, stack, loc, res>>

\* line 31: assert not getattr(get_lock, 'f', None)
get_lock_assert(t) ==
    /\ pc[t] = "gl_assert"
    /\ IF get_lock_f[Proc(t)] = Unset
       THEN /\ pc' = [pc EXCEPT ![t] = "gl_assign"]
            /\ res' = res
       ELSE /\ pc' = [pc EXCEPT ![t] = "done"]
            /\ res' = [res EXCEPT ![t] =
                          Result("get_lock", loc[t].dir, FALSE, "AssertionError")]
    /\ UNCHANGED <<existing, procOf, sentinel, lockOwner, get_lock_f, stack, loc>>

\* line 32: get_lock.f = f; the object get_lock.f referred to, if any, loses
\* that reference
get_lock_assign(t) ==
    /\ pc[t] = "gl_assign"
    /\ get_lock_f' = [get_lock_f EXCEPT ![Proc(t)] = [dir |-> loc[t].dir]]
    /\ lockOwner' = DropRegistered(lockOwner, Proc(t), t)
    /\ loc' = [Detach(loc, Proc(t), t) EXCEPT ![t] = NoFile]
    /\ pc' = [pc EXCEPT ![t] = "done"]
    /\ res' = [res EXCEPT ![t] = Result("get_lock", loc[t].dir, FALSE, "none")]
    /\ UNCHANGED <<existing, procOf, sentinel, stack>>

----------------------------------------------------------------------------
(* release_lock *)

\* a release_lock that takes "nothing is registered" for "nothing to do"
release_lock_read_lenient(t) ==
    /\ pc[t] = "idle"
    /\ IF get_lock_f[Proc(t)] = Unset
       THEN /\ pc' = [pc EXCEPT ![t] = "done"]
            /\ res' = [res EXCEPT ![t] = Result("release_lock", "none", FALSE, "none")]
            /\ loc' = loc
       ELSE /\ pc' = [pc EXCEPT ![t] = "rl_unlock"]
            /\ loc' = [loc EXCEPT ![t] = File(get_lock_f[Proc(t)].dir, "reg")]
            /\ res' = res
    /\ UNCHANGED <<existing, procOf, sentinel, lockOwner, get_lock_f, stack>>

\* line 36: assert get_lock.f, and line 37: f = get_lock.f; reading the
\* attribute raises AttributeError when it is not set
release_lock_read(t) ==
    /\ pc[t] = "idle"
    /\ IF get_lock_f[Proc(t)] = Unset
       THEN /\ pc' = [pc EXCEPT ![t] = "done"]
            /\ res' = [res EXCEPT ![t] =
                          Result("release_lock", "none", FALSE, "AttributeError")]
            /\ loc' = loc
       ELSE /\ pc' = [pc EXCEPT ![t] = "rl_unlock"]
            /\ loc' = [loc EXCEPT ![t] = File(get_lock_f[Proc(t)].dir, "reg")]
            /\ res' = res
    /\ UNCHANGED <<existing, procOf, sentinel, lockOwner, get_lock_f, stack>>

\* a release_lock that removes the lock file after closing it
release_lock_finish_removes_file(t) ==
    /\ pc[t] = "rl_unlock"
    /\ LET p == Proc(t)
           d == loc[t].dir
       IN
       /\ IF loc[t].tag = "closed"
          THEN /\ res' = [res EXCEPT ![t] = Result("release_lock", d, FALSE, "ValueError")]
               /\ UNCHANGED <<lockOwner, get_lock_f>>
          ELSE /\ lockOwner' = CloseFile(Unlock(lockOwner, p, d), p, d)
               /\ get_lock_f' = [get_lock_f EXCEPT ![p] = Unset]
               /\ res' = [res EXCEPT ![t] = Result("release_lock", d, FALSE, "none")]
       /\ sentinel' = [sentinel EXCEPT ![d] = FALSE]
    /\ loc' = [MarkClosed(loc, Proc(t), t) EXCEPT ![t] = NoFile]
    /\ pc' = [pc EXCEPT ![t] = "done"]
    /\ UNCHANGED <<existing, procOf, stack>>

\* a release_lock without line 40
release_lock_finish_keeps_attribute(t) ==
    /\ pc[t] = "rl_unlock"
    /\ LET p == Proc(t)
           d == loc[t].dir
       IN
       IF loc[t].tag = "closed"
       THEN /\ res' = [res EXCEPT ![t] = Result("release_lock", d, FALSE, "ValueError")]
            /\ lockOwner' = lockOwner
       ELSE /\ lockOwner' = CloseFile(Unlock(lockOwner, p, d), p, d)
            /\ res' = [res EXCEPT ![t] = Result("release_lock", d, FALSE, "none")]
    /\ loc' = [MarkClosed(loc, Proc(t), t) EXCEPT ![t] = NoFile]
    /\ pc' = [pc EXCEPT ![t] = "done"]
    /\ UNCHANGED <<existing, procOf, sentinel, stack, get_lock_f>>

\* line 38: fcntl.lockf(f, fcntl.LOCK_UN), line 39: f.close() and
\* line 40: del get_lock.f
release_lock_finish(t) ==
    /\ pc[t] = "rl_unlock"
    /\ LET p == Proc(t)
           d == loc[t].dir
       IN
       CASE loc[t].tag = "closed" ->
              \* line 38 raises ValueError: I/O operation on closed file
              /\ res' = [res EXCEPT ![t] = Result("release_lock", d, FALSE, "ValueError")]
              /\ loc' = [loc EXCEPT ![t] = NoFile]
              /\ UNCHANGED <<lockOwner, get_lock_f>>
         [] loc[t].tag = "reg" ->
              /\ lockOwner' = CloseFile(Unlock(lockOwner, p, d), p, d)
              /\ get_lock_f' = [get_lock_f EXCEPT ![p] = Unset]
              /\ loc' = [MarkClosed(loc, p, t) EXCEPT ![t] = NoFile]
              /\ res' = [res EXCEPT ![t] = Result("release_lock", d, FALSE, "none")]
         [] loc[t].tag = "open" ->
              \* f is not the object of get_lock.f any more
              /\ lockOwner' = DropRegistered(CloseFile(Unlock(lockOwner, p, d), p, d), p, t)
              /\ get_lock_f' = [get_lock_f EXCEPT ![p] = Unset]
              /\ loc' = [Detach(loc, p, t) EXCEPT ![t] = NoFile]
              /\ res' = [res EXCEPT ![t] =
                            Result("release_lock", d, FALSE,
                                   IF get_lock_f[p] = Unset THEN "AttributeError" ELSE "none")]
    /\ pc' = [pc EXCEPT ![t] = "done"]
    /\ UNCHANGED <<existing, procOf, sentinel, stack>>

----------------------------------------------------------------------------
(* The caller, after a call has returned or raised *)

\* the call returned, or the caller is done with the exception it raised: the
\* frame of the call goes, and with it the last reference to its local f
Return(t) ==
    /\ pc[t] = "done"
    /\ lockOwner' = IF loc[t] = NoFile THEN lockOwner
                    ELSE CloseFile(lockOwner, Proc(t), loc[t].dir)
    /\ loc' = [loc EXCEPT ![t] = NoFile]
    /\ pc' = [pc EXCEPT ![t] = "idle"]
    /\ res' = [res EXCEPT ![t] = NoRes]
    /\ UNCHANGED <<existing, procOf, sentinel, get_lock_f, stack>>

\* the call raised inside a lock_ctx block and nothing there catches it: to
\* the enclosing scope its block raises
Propagate(t) ==
    /\ pc[t] = "done"
    /\ res[t].exc # "none"
    /\ Len(stack[t]) > 0
    /\ pc' = [pc EXCEPT ![t] = "ctx_close"]
    /\ res' = [res EXCEPT ![t] = Result("block", "none", FALSE, "BodyError")]
    /\ UNCHANGED <<existing, procOf, sentinel, lockOwner, get_lock_f, stack, loc>>

----------------------------------------------------------------------------
Next ==
    \/ \E t \in Threads, d \in AllDirs : lock_ctx_open(t, d)
    \/ \E t \in Threads : lock_ctx_lockf(t)
    \/ \E t \in Threads, k \in BOOLEAN : lock_ctx_exit(t, k)
    \/ \E t \in Threads : lock_ctx_raise(t)
    \/ \E t \in Threads : lock_ctx_close(t)
    \/ \E t \in Threads, d \in AllDirs : get_lock_open(t, d)
    \/ \E t \in Threads : get_lock_lockf(t)
    \/ \E t \in Threads : get_lock_assert(t)
    \/ \E t \in Threads : get_lock_assign(t)
    \/ \E t \in Threads : release_lock_read(t)
    \/ \E t \in Threads : release_lock_finish(t)
    \/ \E t \in Threads : Return(t)
    \/ \E t \in Threads : Propagate(t)

Spec == Init /\ [][Next]_vars

----------------------------------------------------------------------------
(* Properties of lock_ctx *)

\* the callers that are inside the block of a lock_ctx scope on d
Inside(d) == {t \in Threads : InBlock(t, d)}

\* t has just left a lock_ctx scope on d: e is what the block raised, or "none"
LeftScope(t, d, e) ==
    pc[t] = "done" /\ res[t].op = "lock_ctx" /\ res[t].dir = d /\ res[t].exc = e

\* t is at line 20 of a lock_ctx call on d
AtLockCtxLockf(t, d) == pc[t] = "ctx_lockf" /\ Top(stack[t]).dir = d

\* C1: no two callers of different processes are inside lock_ctx blocks on
\* the same directory at the same time
C1_MutualExclusionProcesses ==
    \A d \in Dirs : \A t, u \in Inside(d) : Proc(t) = Proc(u)

\* C2: the counter of the callers inside lock_ctx blocks on one directory,
\* callers of different processes or threads of one process, never exceeds 1
C2_CounterAtMostOne ==
    \A d \in Dirs : Cardinality(Inside(d)) <= 1

\* C3: when the with statement of line 19 ends a scope whose block raised,
\* the process owns the lock of the directory no more: the lock it owned is
\* free, for any fresh lock_ctx of this or another process to take
C3_ReleasedWhenBlockRaises ==
    [][\A t \in Threads :
         (pc[t] = "ctx_close" /\ res[t].exc # "none" /\ pc'[t] = "done")
         => LET d == Top(stack[t]).dir IN
              /\ lockOwner'[d] # Proc(t)
              /\ lockOwner[d] = Proc(t) => lockOwner'[d] = NoProc]_vars

\* a block has raised, its scope is left, and a caller of another process that
\* waited at line 20 for that directory finds the lock free
C3_Witness ==
    \E t, u \in Threads, d \in Dirs :
        /\ Proc(t) # Proc(u)
        /\ LeftScope(t, d, "BodyError")
        /\ AtLockCtxLockf(u, d)
        /\ lockOwner[d] = NoProc

\* C4: a scope entered with keep_lock = True, whose process owns the lock when
\* the block ends, leaves the process owning the lock when the scope is left
C4_KeepLockKeepsLock ==
    [][\A t \in Threads :
         (/\ pc[t] = "ctx_close" /\ pc'[t] = "done"
          /\ res[t].exc = "none" /\ Top(stack[t]).keep_lock
          /\ lockOwner[Top(stack[t]).dir] = Proc(t))
         => lockOwner'[Top(stack[t]).dir] = Proc(t)]_vars

----------------------------------------------------------------------------
(* Properties of get_lock and release_lock *)

\* t has just finished the call op on d: e is what it raised, or "none"
Finished(t, op, d, e) ==
    pc[t] = "done" /\ res[t].op = op /\ res[t].dir = d /\ res[t].exc = e

\* C5: a get_lock call in a process whose get_lock.f is set fails rather than
\* waits: it is never held up at line 30
C5_SecondAcquireNeverWaits ==
    \A t \in Threads :
        (pc[t] = "gl_lockf" /\ get_lock_f[Proc(t)] # Unset)
        => CanLock(lockOwner[loc[t].dir], Proc(t))

\* C6: release_lock called while get_lock.f is not set raises at once and
\* changes neither get_lock.f nor any lock nor any file
C6_ReleaseWithoutAcquireFails ==
    [][\A t \in Threads :
         (/\ pc[t] = "idle" /\ get_lock_f[Proc(t)] = Unset
          /\ pc'[t] \in {"rl_unlock", "done"} /\ res'[t].op \in {"none", "release_lock"})
         => /\ pc'[t] = "done"
            /\ res'[t].exc = "AttributeError"
            /\ get_lock_f' = get_lock_f
            /\ lockOwner' = lockOwner
            /\ loc' = loc
            /\ sentinel' = sentinel]_vars

\* release_lock has failed in a process whose get_lock.f is not set, while the
\* other caller owns a lock, which the failure has left alone
C6_Witness ==
    \E t, u \in Threads, d \in Dirs :
        /\ t # u
        /\ Finished(t, "release_lock", "none", "AttributeError")
        /\ get_lock_f[Proc(t)] = Unset
        /\ sentinel[d]
        /\ lockOwner[d] = Proc(u)

\* C7: line 32 never overwrites a handle that is registered: get_lock.f is
\* set only from unset, and goes back to unset only by release_lock
C7_RegistryNeverOverwritten ==
    [][\A t \in Threads :
         (pc[t] = "gl_assign" /\ pc'[t] = "done") => get_lock_f[Proc(t)] = Unset]_vars

\* C8: two threads of one process are never both past the check of line 31,
\* each about to record its handle
C8_OneThreadPassesTheCheck ==
    \A t, u \in Threads :
        (t # u /\ Proc(t) = Proc(u)) => ~(pc[t] = "gl_assign" /\ pc[u] = "gl_assign")

----------------------------------------------------------------------------
(* Liveness of lock_ctx: callers that use lock_ctx only.  The operating     *)
(* system grants a lock that stays free to a caller waiting for it, and a   *)
(* thread that has left its block runs on to the end of the with statement. *)

ScopedNext ==
    \/ \E t \in Threads, d \in AllDirs : lock_ctx_open(t, d)
    \/ \E t \in Threads : lock_ctx_lockf(t)
    \/ \E t \in Threads, k \in BOOLEAN : lock_ctx_exit(t, k)
    \/ \E t \in Threads : lock_ctx_raise(t)
    \/ \E t \in Threads : lock_ctx_close(t)
    \/ \E t \in Threads : Return(t)
    \/ \E t \in Threads : Propagate(t)

LiveSpec ==
    /\ Init
    /\ [][ScopedNext]_vars
    /\ \A t \in Threads : WF_vars(lock_ctx_lockf(t)) /\ WF_vars(lock_ctx_close(t))

\* some caller waits at line 20 for the lock of d
Waiting(d) == \E t \in Threads : AtLockCtxLockf(t, d)

\* some caller waiting at line 20 for the lock of d gets it
Acquire(d) == \E t \in Threads : AtLockCtxLockf(t, d) /\ lock_ctx_lockf(t)

\* every caller inside a block on d leaves it again
HoldersLeave(d) == \A t \in Threads : []<>(~InBlock(t, d))

\* C9: if every holder of d leaves its scope again, then callers do not wait
\* for d for ever while nobody gets it: as long as callers come to wait for
\* d, some waiting caller gets the lock
C9_SomeWaiterGetsTheLock ==
    \A d \in Dirs :
        HoldersLeave(d) => ([]<>(~Waiting(d)) \/ []<><<Acquire(d)>>_vars)

\* a scope on d entered without keep_lock has been left, the lock is free and
\* a caller of another process is waiting for it
C9_Witness ==
    \E t, u \in Threads, d \in Dirs :
        /\ Proc(t) # Proc(u)
        /\ LeftScope(t, d, "none") /\ ~res[t].keep_lock
        /\ AtLockCtxLockf(u, d)
        /\ lockOwner[d] = NoProc

----------------------------------------------------------------------------
(* Nesting on one directory *)

\* t is at line 20 of a lock_ctx call on d made inside a lock_ctx block of t
\* on d, or while get_lock.f of its process is a file of d
NestedAtLockf(t, d) ==
    /\ AtLockCtxLockf(t, d)
    /\ \/ \E i \in 1..(Len(stack[t]) - 1) : stack[t][i].dir = d
       \/ get_lock_f[Proc(t)] = [dir |-> d]

\* C10, as claimed: such a nested call never gets past line 20 into its block
C10_NestedScopeNeverEntered ==
    [][\A t \in Threads, d \in Dirs :
         NestedAtLockf(t, d) => pc'[t] = "ctx_lockf"]_vars

\* C10, amended: while its process owns the lock of d, such a nested call is
\* not held up at line 20: it can enter its block at once
C10_NestedScopeDoesNotBlock ==
    \A t \in Threads, d \in Dirs :
        (NestedAtLockf(t, d) /\ lockOwner[d] = Proc(t)) => ENABLED lock_ctx_lockf(t)

\* a caller is inside the block of a lock_ctx scope on d nested in the block
\* of another lock_ctx scope of its own on d
C10_Witness ==
    \E t \in Threads, d \in Dirs :
        /\ Len(stack[t]) = 2
        /\ stack[t][1].dir = d /\ stack[t][2].dir = d
        /\ pc[t] = "idle"
        /\ lockOwner[d] = Proc(t)

----------------------------------------------------------------------------
(* A directory that does not exist *)

\* t goes from the caller's code into a lock_ctx or get_lock call, or through
\* one that fails at its first line
StartsAcquire(t) ==
    /\ pc[t] = "idle"
    /\ \/ pc'[t] \in {"ctx_lockf", "gl_lockf"}
       \/ pc'[t] = "done" /\ res'[t].op \in {"lock_ctx", "get_lock"}

\* the directory of the call t has gone into
AcquireDir(t) ==
    IF pc'[t] = "ctx_lockf" THEN Top(stack'[t]).dir
    ELSE IF pc'[t] = "gl_lockf" THEN loc'[t].dir
    ELSE res'[t].dir

\* C11: lock_ctx or get_lock on a directory that does not exist raises at its
\* first line (IOError of open) in one step, makes neither the directory nor
\* the sentinel, takes no lock, opens no file and leaves get_lock.f alone
C11_MissingDirectoryFails ==
    [][\A t \in Threads :
         (StartsAcquire(t) /\ AcquireDir(t) \notin existing)
         => /\ pc'[t] = "done"
            /\ res'[t].exc = "IOError"
            /\ existing' = existing
            /\ sentinel' = sentinel
            /\ lockOwner' = lockOwner
            /\ get_lock_f' = get_lock_f
            /\ stack' = stack
            /\ loc' = loc]_vars

\* lock_ctx has failed on the missing directory in a process whose get_lock.f
\* is set, and neither the directory nor its sentinel exists
C11_Witness ==
    \E t \in Threads :
        /\ Finished(t, "lock_ctx", MissingDir, "IOError")
        /\ get_lock_f[Proc(t)] # Unset
        /\ MissingDir \notin existing
        /\ ~sentinel[MissingDir]

----------------------------------------------------------------------------
(* lock_ctx and the registry *)

\* t takes a step of lock_ctx: it enters or fails to enter a scope, gets the
\* lock, leaves the block normally or by an exception, or ends the scope
ScopedStep(t) ==
    /\ pc'[t] # pc[t]
    /\ \/ pc[t] \in {"ctx_lockf", "ctx_close"}
       \/ pc'[t] \in {"ctx_lockf", "ctx_close"}
       \/ pc[t] = "idle" /\ pc'[t] = "done" /\ res'[t].op = "lock_ctx"

\* C12: no step of lock_ctx changes get_lock.f; entering a scope opens one
\* file of the directory and the end of the scope, however the block was
\* left and whatever keep_lock is, closes one and ends the frame
C12_ScopesLeaveRegistryAlone ==
    [][\A t \in Threads :
         ScopedStep(t)
         => /\ get_lock_f' = get_lock_f
            /\ \A p \in Procs, d \in Dirs :
                 /\ (pc'[t] = "ctx_lockf" /\ p = Proc(t) /\ Top(stack'[t]).dir = d)
                    => (OpenFiles(p, d))' = OpenFiles(p, d) + 1
                 /\ (pc[t] = "ctx_close" /\ p = Proc(t) /\ Top(stack[t]).dir = d)
                    => /\ stack'[t] = Pop(stack[t])
                       /\ (OpenFiles(p, d))' = OpenFiles(p, d) - 1]_vars

\* a scope entered with keep_lock has been left in a process whose get_lock.f
\* is a file of the same directory: get_lock.f is still set and is the one
\* open file of the process on that directory
C12_Witness ==
    \E t \in Threads, d \in Dirs :
        /\ LeftScope(t, d, "none") /\ res[t].keep_lock
        /\ get_lock_f[Proc(t)] = [dir |-> d]
        /\ OpenFiles(Proc(t), d) = 1

----------------------------------------------------------------------------
(* Holding the lock *)

\* process p has get_lock.f set to a file of d, or a caller of p inside the
\* block of a lock_ctx scope on d
Holds(p, d) ==
    \/ get_lock_f[p] = [dir |-> d]
    \/ \E t \in Inside(d) : Proc(t) = p

\* C13: while get_lock.f of a process is a file of d, or a caller of the
\* process is inside a lock_ctx block on d, the process owns the lock of d,
\* so that no other process can obtain it
C13_HeldUntilReleased ==
    \A p \in Procs, d \in Dirs : Holds(p, d) => lockOwner[d] = p

\* C14: a get_lock on d that failed at line 31 in a process whose get_lock.f
\* is a file of d and which owns the lock of d has changed nothing when its
\* caller is done with the exception: get_lock.f is the same file and the
\* process still owns the lock, the file of the failed call being closed
\* without an effect on it
C14_FailedAcquireChangesNothing ==
    [][\A t \in Threads, d \in Dirs :
         ( /\ Finished(t, "get_lock", d, "AssertionError")
           /\ get_lock_f[Proc(t)] = [dir |-> d]
           /\ lockOwner[d] = Proc(t)
           /\ pc'[t] # pc[t] )
         => /\ get_lock_f' = get_lock_f
            /\ lockOwner'[d] = Proc(t)]_vars

\* C15: while get_lock.f of one process is a file of d, no other process has
\* get_lock.f set to a file of d or a caller inside a lock_ctx block on d
C15_ExclusionAcrossTheTwoAPIs ==
    \A p, q \in Procs, d \in Dirs :
        (p # q /\ get_lock_f[p] = [dir |-> d]) => ~Holds(q, d)

----------------------------------------------------------------------------
(* get_lock and release_lock, one after the other *)

\* t returns from a release_lock that raised nothing
ReleaseReturns(t) ==
    pc[t] = "rl_unlock" /\ pc'[t] = "done" /\ res'[t].exc = "none"

\* C16: a release_lock that succeeds leaves its process as it was before the
\* get_lock: get_lock.f is unset, the process owns the lock of the directory
\* no more (a process waiting for it can go on), the file is closed and gone
\* from the caller; and a get_lock that reaches line 31 while get_lock.f is
\* unset passes the check. There is no bound on the number of such cycles.
C16_ReleaseRestoresInitialState ==
    [][\A t \in Threads :
         /\ ReleaseReturns(t)
            => LET p == Proc(t)
                   d == loc[t].dir
               IN /\ get_lock_f'[p] = Unset
                  /\ lockOwner'[d] # p
                  /\ \A u \in Threads :
                       (Proc(u) # p /\ pc'[u] = "gl_lockf" /\ loc'[u].dir = d)
                       => CanLock(lockOwner'[d], Proc(u))
                  /\ loc'[t] = NoFile
                  /\ (OpenFiles(p, d))' < OpenFiles(p, d)
         /\ (pc[t] = "gl_assert" /\ pc'[t] # pc[t] /\ get_lock_f[Proc(t)] = Unset)
            => pc'[t] = "gl_assign"]_vars

\* release_lock has returned in one process while a get_lock of the other
\* process is at line 30 for the same directory: the lock is free for it
C16_Witness ==
    \E t, u \in Threads, d \in Dirs :
        /\ Finished(t, "release_lock", d, "none")
        /\ get_lock_f[Proc(t)] = Unset
        /\ Proc(u) # Proc(t) /\ pc[u] = "gl_lockf" /\ loc[u].dir = d
        /\ lockOwner[d] = NoProc

----------------------------------------------------------------------------
(* Scopes on two directories *)

\* t takes a step of its innermost lock_ctx scope, a scope on d2 that is
\* nested in the block of a scope of t on another directory d1
NestedStepOnOther(t, d1, d2) ==
    /\ d1 # d2
    /\ ScopedStep(t)
    /\ ~(pc[t] = "idle" /\ pc'[t] = "done")
    /\ LET s == IF pc'[t] = "ctx_lockf" THEN stack'[t] ELSE stack[t] IN
         /\ Len(s) >= 2
         /\ Top(s).dir = d2
         /\ \E i \in 1..(Len(s) - 1) : s[i].dir = d1

\* t is at line 20 of a lock_ctx on d2 nested in a scope of t on d1
NestedAtLockfOnOther(t, d1, d2) ==
    /\ d1 # d2
    /\ AtLockCtxLockf(t, d2)
    /\ \E i \in 1..(Len(stack[t]) - 1) : stack[t][i].dir = d1

\* C17: a lock_ctx on d2 nested in a lock_ctx block on another directory d1
\* is held up at line 20 by the lock of d2 alone, never by the lock of d1,
\* and no step of it, entering or leaving, changes the owner of the lock of d1
C17_OtherDirectoryUntouched ==
    /\ [](\A t \in Threads, d1, d2 \in Dirs :
            (NestedAtLockfOnOther(t, d1, d2) /\ CanLock(lockOwner[d2], Proc(t)))
            => ENABLED lock_ctx_lockf(t))
    /\ [][\A t \in Threads, d1, d2 \in Dirs :
            NestedStepOnOther(t, d1, d2) => lockOwner'[d1] = lockOwner[d1]]_vars

\* a caller has entered and left a lock_ctx scope on d2 inside its lock_ctx
\* block on d1, and its process still owns the lock of d1
C17_Witness ==
    \E t \in Threads, d1, d2 \in Dirs :
        /\ d1 # d2
        /\ LeftScope(t, d2, "none")
        /\ Len(stack[t]) = 1 /\ stack[t][1].dir = d1
        /\ lockOwner[d1] = Proc(t)
        /\ lockOwner[d2] = NoProc

----------------------------------------------------------------------------
(* The lock file *)

\* C18: a lock_ctx or get_lock on a directory that exists leaves the lock file
\* of the directory in existence from its first line on, and no step of any
\* operation removes a lock file that exists
C18_LockFileStays ==
    [][/\ \A t \in Threads :
            (StartsAcquire(t) /\ AcquireDir(t) \in existing)
            => sentinel'[AcquireDir(t)]
       /\ \A d \in AllDirs : sentinel[d] => sentinel'[d]]_vars

\* release_lock has returned for a directory, a lock_ctx scope on another
\* directory has been left by an exception, and both lock files exist
C18_Witness ==
    \E t, u \in Threads, d, e \in Dirs :
        /\ Finished(t, "release_lock", d, "none")
        /\ LeftScope(u, e, "BodyError")
        /\ get_lock_f[Proc(t)] = Unset
        /\ lockOwner[d] = NoProc
        /\ sentinel[d] /\ sentinel[e]

====
